---------------------------- MODULE Spec2Model ----------------------------
(***************************************************************************)
(* Model of the pp_dy resampling code:                                     *)
(*   - knn_interpolation   (src/python/interpolation_methods.py)           *)
(*   - the batch script    (src/python/knn_interpolation.py)               *)
(*   - the demo scenario   (src/python/quicky.py)                          *)
(*                                                                         *)
(* Time coordinates and measurements are integers here; the floating-point *)
(* arithmetic of the kernel is carried out on exact fractions <<n, d>>     *)
(* (d > 0, lowest terms), with NaN == <<0, 0>> for the IEEE result of 0/0. *)
(* A data frame is a record [rows, cols]: cols is the sequence of columns  *)
(* in frame order, each [label, vals]; a label is [kind, n], standing for  *)
(* the header strings "n" (kind "plain"), "n.0" (kind "dot0") or a header  *)
(* that float() rejects (kind "text").                                     *)
(***************************************************************************)
EXTENDS Integers, Sequences, FiniteSets, TLC

\* ------------------------------------------------------------------ bounds
MaxTime == 3
MaxCols == 4
MaxFreeCols == 3
MaxK == 2
MaxFiles == 2
MaxFileCols == 2
MaxStep == 2

\* measurements used in the enumerated tables
Vals == {1, 3}

\* --------------------------------------------------- float arithmetic
NaN == <<0, 0>>

IsNaN(x) == x[2] = 0

Abs(x) == IF x < 0 THEN -x ELSE x

RECURSIVE GCD(_, _)
GCD(a, b) == IF b = 0 THEN a ELSE GCD(b, a % b)

\* the float n/d (0/0 is NaN)
Frac(n, d) ==
    IF d = 0 THEN NaN
    ELSE LET g == GCD(Abs(n), Abs(d))
             s == IF d < 0 THEN -1 ELSE 1
         IN  <<(s * n) \div g, (s * d) \div g>>

Flt(n) == <<n, 1>>

FAdd(x, y) == IF IsNaN(x) \/ IsNaN(y) THEN NaN
              ELSE Frac(x[1] * y[2] + y[1] * x[2], x[2] * y[2])

FSub(x, y) == IF IsNaN(x) \/ IsNaN(y) THEN NaN
              ELSE Frac(x[1] * y[2] - y[1] * x[2], x[2] * y[2])

FMul(x, y) == IF IsNaN(x) \/ IsNaN(y) THEN NaN
              ELSE Frac(x[1] * y[1], x[2] * y[2])

\* numpy float64 division: 0/0 gives NaN (a warning, no exception).  The
\* only zero divisor in knn_interpolation is b = 0, and a column enters the
\* window of b = 0 only with t - sample = 0, so x/0 with x # 0 never occurs.
FDiv(x, y) == IF IsNaN(x) \/ IsNaN(y) \/ y[1] = 0 THEN NaN
              ELSE Frac(x[1] * y[2], x[2] * y[1])

\* x > y; every comparison with NaN is False
FGt(x, y) == /\ ~IsNaN(x)
             /\ ~IsNaN(y)
             /\ x[1] * y[2] > y[1] * x[2]

FLe(x, y) == /\ ~IsNaN(x)
             /\ ~IsNaN(y)
             /\ x[1] * y[2] <= y[1] * x[2]

\* kernel * np.array(column), elementwise
VecScale(k, vals) == [r \in 1..Len(vals) |-> FMul(k, Flt(vals[r]))]

VecAdd(u, v) == [r \in 1..Len(u) |-> FAdd(u[r], v[r])]

VecDiv(u, k) == [r \in 1..Len(u) |-> FDiv(u[r], k)]

\* np.zeros(n)
Zeros(n) == [r \in 1..n |-> Flt(0)]

\* ------------------------------------------------------ column labels
Plain(n) == [kind |-> "plain", n |-> n]
Dot0(n) == [kind |-> "dot0", n |-> n]
TextLabel == [kind |-> "text", n |-> 0]

\* float(col) succeeds
IsNumeric(label) == label.kind \in {"plain", "dot0"}

\* float(col): "3" and "3.0" both parse to 3.0
ParseFloat(label) == label.n

\* ------------------------------------------------- knn_interpolation
\* all_time_points = list(samples.columns); all_time_points.pop(0)
AllTimePoints(samples) == Tail(samples.cols)

\* np.abs([float(tp) - float(t) ...]) followed by .sort()
SamplesDist(samples, t) ==
    LET pts == AllTimePoints(samples)
    IN  SortSeq([i \in 1..Len(pts) |-> Abs(ParseFloat(pts[i].label) - t)],
                LAMBDA x, y: x < y)

\* pop(0) of an empty list and samples_dist[K] past the end raise IndexError
KnnRaises(samples, k) ==
    \/ Len(samples.cols) = 0
    \/ k >= Len(samples.cols) - 1

\* b = samples_dist[K]   (0-indexed)
Bandwidth(samples, t, k) == SamplesDist(samples, t)[k + 1]

\* the window test with its second comparison lost
InWindowLowerOnly(sample, t, b) == sample - b <= t

\* sample - b <= t and t <= sample + b
InWindow(sample, t, b) == sample - b <= t /\ t <= sample + b

\* the kernel with the square lost: 0.75 * (1 - (t - sample) / b)
KernelNoSquare(sample, t, b) ==
    LET ker_norm == FDiv(Flt(t - sample), Flt(b))
    IN  FMul(Frac(3, 4), FSub(Flt(1), ker_norm))

\* kernel = 0.75 * (1 - ((t - sample) / b) ** 2)
Kernel(sample, t, b) ==
    LET ker_norm == FDiv(Flt(t - sample), Flt(b))
    IN  FMul(Frac(3, 4), FSub(Flt(1), FMul(ker_norm, ker_norm)))

\* the accumulator before the loop: time_point_interpolated = None, total 0.0
AccInit == [isNone |-> TRUE, vec |-> <<>>, total |-> Flt(0)]

\* one iteration of the loop over range(samples.shape[1])
LoopBody(acc, col, t, b) ==
    LET sample == ParseFloat(col.label)
        kernel == Kernel(sample, t, b)
    IN  IF InWindow(sample, t, b)
        THEN [isNone |-> FALSE,
              vec    |-> IF acc.isNone THEN VecScale(kernel, col.vals)
                         ELSE VecAdd(acc.vec, VecScale(kernel, col.vals)),
              total  |-> FAdd(acc.total, kernel)]
        ELSE acc

RECURSIVE Loop(_, _, _, _)
Loop(samples, t, b, n) ==
    IF n = 0 THEN AccInit
    ELSE LoopBody(Loop(samples, t, b, n - 1), samples.cols[n], t, b)

\* the older variant of the function: the raw weighted sum, no division
WeightedAverageRaw(acc, rows) ==
    IF ~acc.isNone /\ FGt(acc.total, Flt(0))
    THEN acc.vec
    ELSE Zeros(rows)

\* the final division, or the zero vector
WeightedAverage(acc, rows) ==
    IF ~acc.isNone /\ FGt(acc.total, Flt(0))
    THEN VecDiv(acc.vec, acc.total)
    ELSE Zeros(rows)

\* the whole call; "exc" is "none" or the exception that leaves the function
KnnInterpolation(samples, t, k) ==
    IF KnnRaises(samples, k)
    THEN [exc |-> "IndexError", b |-> -1, total |-> Flt(0), value |-> <<>>]
    ELSE LET b   == Bandwidth(samples, t, k)
             acc == Loop(samples, t, b, Len(samples.cols))
         IN  [exc |-> "none", b |-> b, total |-> acc.total,
              value |-> WeightedAverage(acc, samples.rows)]


\* --------------------------------------------------------------- state
VARIABLES
    samples,                 \* knn_interpolation: the data frame argument
    time_point_to_complete,  \* knn_interpolation: the query time
    K,                       \* number of neighbours (argument / script global)
    kpc,                     \* "idle", "call", "returned" or "raised"
    ret,                     \* outcome of the call
    new_time_interval,       \* script global: the step of the regular grid
    nfiles,                  \* len(files_to_process)
    fileIdx,                 \* position of the batch loop in files_to_process
    pc,                      \* "next", "grid", "done" or "crashed"
    irregular_data,          \* the loaded frame after cleaning
    regular_time_points,     \* the regular grid of the current file
    gi,                      \* position of the grid loop
    regular_data,            \* the output columns assembled so far
    kernel_calls,            \* knn_interpolation calls made for the current file
    outputs,                 \* per file: "none", "skipped" or "written"
    exc                      \* "none" or the uncaught exception

kvars == <<samples, time_point_to_complete, K, kpc, ret>>

bvars == <<new_time_interval, nfiles, fileIdx, pc, irregular_data,
           regular_time_points, gi, regular_data, kernel_calls, outputs, exc>>

vars == <<kvars, bvars>>

EmptyFrame == [rows |-> 1, cols |-> <<>>]

\* ------------------------------------------- inputs of the kernel calls
Times == 0..MaxTime

\* one-feature frames over Times with any measurements from Vals, columns
\* in any order, repeated times allowed
FreeColumns == [label : {Plain(n) : n \in Times}, vals : {<<v>> : v \in Vals}]

FreeTables ==
    {[rows |-> 1, cols |-> c] :
        c \in UNION {[1..n -> FreeColumns] : n \in 0..MaxFreeCols}}

\* two-feature frames sampled from a rising and a falling series (as the
\* two microbes of quicky.py), columns in any order, repeated times allowed
SeriesColumn(n) == [label |-> Plain(n), vals |-> <<10 + 5 * n, 100 - 20 * n>>]

SeriesTables ==
    {[rows |-> 2, cols |-> [i \in 1..Len(q) |-> SeriesColumn(q[i])]] :
        q \in UNION {[1..n -> Times] : n \in 0..MaxCols}}

KernelTables == FreeTables \cup SeriesTables

\* sample_data of quicky.py
QuickyCols ==
    << [label |-> Plain(0),  vals |-> <<10, 100>>],
       [label |-> Plain(3),  vals |-> <<15, 80>>],
       [label |-> Plain(8),  vals |-> <<30, 40>>],
       [label |-> Plain(15), vals |-> <<50, 20>>] >>

QuickyData == [rows |-> 2, cols |-> QuickyCols]

QuickyTime == 5

QuickyK == 2

\* the same four columns in every column order
QuickyTables ==
    {[rows |-> 2, cols |-> [i \in 1..4 |-> QuickyCols[p[i]]]] :
        p \in Permutations(1..4)}

NoRet == [exc |-> "none", b |-> -1, total |-> Flt(0), value |-> <<>>]

KInit ==
    /\ \/ /\ samples \in KernelTables
          /\ time_point_to_complete \in Times
          /\ K \in 1..MaxK
       \/ /\ samples \in QuickyTables
          /\ time_point_to_complete \in {3, QuickyTime}
          /\ K \in {1, QuickyK}
    /\ kpc = "call"
    /\ ret = NoRet
    /\ new_time_interval = 1
    /\ nfiles = 0
    /\ fileIdx = 1
    /\ pc = "done"
    /\ irregular_data = EmptyFrame
    /\ regular_time_points = <<>>
    /\ gi = 1
    /\ regular_data = <<>>
    /\ kernel_calls = 0
    /\ outputs = <<>>
    /\ exc = "none"

\* the call returns weighted_average
KnnReturn ==
    /\ kpc = "call"
    /\ ~KnnRaises(samples, K)
    /\ ret' = KnnInterpolation(samples, time_point_to_complete, K)
    /\ kpc' = "returned"
    /\ UNCHANGED <<samples, time_point_to_complete, K, bvars>>

\* the call is left by IndexError (pop(0) or samples_dist[K])
KnnRaise ==
    /\ kpc = "call"
    /\ KnnRaises(samples, K)
    /\ ret' = KnnInterpolation(samples, time_point_to_complete, K)
    /\ kpc' = "raised"
    /\ UNCHANGED <<samples, time_point_to_complete, K, bvars>>

KNext == KnnReturn \/ KnnRaise

Spec == KInit /\ [][KNext]_vars


\* ---------------------------------------------------- the batch script
\* the values the script configures
ConfiguredInterval == 7

\* headers of a loaded file: "n", "n.0" or a non-numeric header
FileLabels == {Plain(n) : n \in Times} \cup {Dot0(n) : n \in Times} \cup {TextLabel}

\* pd.read_csv keeps the headers of a frame distinct
LabelSeqs(labels, n) ==
    {l \in [1..n -> labels] : \A i, j \in 1..n : i # j => l[i] # l[j]}

\* a loaded frame with the headers l: one feature, the value of a column
\* tells which column of the file it is
FileTable(l) ==
    [rows |-> 1, cols |-> [i \in 1..Len(l) |-> [label |-> l[i], vals |-> <<10 + i>>]]]

\* what pd.read_csv may return: short frames with headers of every form,
\* longer frames with headers of the form "n", and the frame of quicky.py
FileTables ==
    {FileTable(l) : l \in UNION {LabelSeqs(FileLabels, n) : n \in 0..MaxFileCols}}
      \cup {FileTable(l) :
              l \in UNION {LabelSeqs({Plain(x) : x \in Times}, n) : n \in 1..MaxCols}}
      \cup {QuickyData}

\* irregular_data[valid_numeric_columns]: the columns whose header float() accepts
Clean(frame) ==
    [rows |-> frame.rows, cols |-> SelectSeq(frame.cols, LAMBDA c : IsNumeric(c.label))]

\* original_time_points = [float(col) for col in irregular_data.columns]
OriginalTimePoints(frame) ==
    [i \in 1..Len(frame.cols) |-> ParseFloat(frame.cols[i].label)]

SeqMin(q) == CHOOSE x \in {q[i] : i \in 1..Len(q)} : \A i \in 1..Len(q) : x <= q[i]

SeqMax(q) == CHOOSE x \in {q[i] : i \in 1..Len(q)} : \A i \in 1..Len(q) : x >= q[i]

\* np.arange(start, stop, step): ceil((stop - start) / step) points from start
Arange(start, stop, step) ==
    LET n == IF stop > start THEN (stop - start + step - 1) \div step ELSE 0
    IN  [i \in 1..n |-> start + (i - 1) * step]

\* the grid with the "+ new_time_interval" of the stop value lost
GridStopAtEnd(points, step) == Arange(SeqMin(points), SeqMax(points), step)

\* np.arange(start_time, end_time + new_time_interval, new_time_interval)
Grid(points, step) == Arange(SeqMin(points), SeqMax(points) + step, step)

\* np.isclose(a, b): |a - b| <= 1e-8 + 1e-5 * |b|
IsClose(a, b) == 100000000 * Abs(a - b) <= 1 + 1000 * Abs(b)

\* the search for a match that looks at the first original time only
ExistingMatchFirstOnly(points, t) ==
    IF Len(points) > 0 /\ IsClose(points[1], t) THEN 1 ELSE 0

\* next((ot for ot in original_time_points if np.isclose(ot, t)), None);
\* the result is the position of the first match, 0 for None
ExistingMatch(points, t) ==
    IF \E i \in 1..Len(points) : IsClose(points[i], t)
    THEN CHOOSE i \in 1..Len(points) :
            /\ IsClose(points[i], t)
            /\ \A j \in 1..(i - 1) : ~IsClose(points[j], t)
    ELSE 0

\* str(existing_match): the float with an integral value prints as "n.0"
StrFloat(x) == Dot0(x)

\* original_col_name: str(existing_match) without a trailing ".0"
OriginalColName(x) ==
    LET name == StrFloat(x)
    IN  IF name.kind = "dot0" THEN Plain(name.n) ELSE name

\* irregular_data[name]: the positions of the columns with this header
ColumnsNamed(frame, name) == {i \in 1..Len(frame.cols) : frame.cols[i].label = name}

\* a copied integer column, as stored next to the kernel's float columns
AsFloats(vals) == [r \in 1..Len(vals) |-> Flt(vals[r])]

BInit ==
    /\ K \in 1..MaxK
    /\ new_time_interval \in (1..MaxStep) \cup {ConfiguredInterval}
    /\ nfiles \in 1..MaxFiles
    /\ fileIdx = 1
    /\ pc = "next"
    /\ irregular_data = EmptyFrame
    /\ regular_time_points = <<>>
    /\ gi = 1
    /\ regular_data = <<>>
    /\ kernel_calls = 0
    /\ outputs = [i \in 1..nfiles |-> "none"]
    /\ exc = "none"
    /\ samples = EmptyFrame
    /\ time_point_to_complete = 0
    /\ kpc = "idle"
    /\ ret = NoRet

\* a file without a numeric header: "SKIPPING", continue
SkipFile ==
    /\ pc = "next"
    /\ fileIdx <= nfiles
    /\ \E loaded \in FileTables :
         /\ Len(Clean(loaded).cols) = 0
         /\ irregular_data' = Clean(loaded)
    /\ outputs' = [outputs EXCEPT ![fileIdx] = "skipped"]
    /\ fileIdx' = fileIdx + 1
    /\ UNCHANGED <<kvars, new_time_interval, nfiles, pc, regular_time_points,
                   gi, regular_data, kernel_calls, exc>>

\* read the file, clean it, build the grid and the empty output frame
LoadFile ==
    /\ pc = "next"
    /\ fileIdx <= nfiles
    /\ \E loaded \in FileTables :
         /\ Len(Clean(loaded).cols) > 0
         /\ irregular_data' = Clean(loaded)
         /\ regular_time_points' =
              Grid(OriginalTimePoints(Clean(loaded)), new_time_interval)
    /\ regular_data' = <<>>
    /\ gi' = 1
    /\ kernel_calls' = 0
    /\ pc' = "grid"
    /\ UNCHANGED <<kvars, new_time_interval, nfiles, fileIdx, outputs, exc>>

\* a grid point with a close original time: copy the column found by name
GridCopy ==
    /\ pc = "grid"
    /\ gi <= Len(regular_time_points)
    /\ LET t      == regular_time_points[gi]
           points == OriginalTimePoints(irregular_data)
           m      == ExistingMatch(points, t)
       IN  /\ m # 0
           /\ LET found == ColumnsNamed(irregular_data, OriginalColName(points[m]))
              IN  /\ found # {}
                  /\ regular_data' = Append(regular_data,
                        [t |-> t, src |-> "copy",
                         vals |-> AsFloats(irregular_data.cols[CHOOSE i \in found : TRUE].vals)])
    /\ gi' = gi + 1
    /\ UNCHANGED <<kvars, new_time_interval, nfiles, fileIdx, pc, irregular_data,
                   regular_time_points, kernel_calls, outputs, exc>>

\* a grid point with a close original time whose header is not the name
\* the script derives: irregular_data[name] raises KeyError
GridCopyKeyError ==
    /\ pc = "grid"
    /\ gi <= Len(regular_time_points)
    /\ LET t      == regular_time_points[gi]
           points == OriginalTimePoints(irregular_data)
           m      == ExistingMatch(points, t)
       IN  /\ m # 0
           /\ ColumnsNamed(irregular_data, OriginalColName(points[m])) = {}
    /\ exc' = "KeyError"
    /\ pc' = "crashed"
    /\ UNCHANGED <<kvars, new_time_interval, nfiles, fileIdx, irregular_data,
                   regular_time_points, gi, regular_data, kernel_calls, outputs>>

\* a grid point without a close original time: the kernel's column
GridInterpolate ==
    /\ pc = "grid"
    /\ gi <= Len(regular_time_points)
    /\ LET t == regular_time_points[gi]
           r == KnnInterpolation(irregular_data, t, K)
       IN  /\ ExistingMatch(OriginalTimePoints(irregular_data), t) = 0
           /\ r.exc = "none"
           /\ samples' = irregular_data
           /\ time_point_to_complete' = t
           /\ ret' = r
           /\ kpc' = "returned"
           /\ regular_data' = Append(regular_data,
                                     [t |-> t, src |-> "knn", vals |-> r.value])
    /\ kernel_calls' = kernel_calls + 1
    /\ gi' = gi + 1
    /\ UNCHANGED <<K, new_time_interval, nfiles, fileIdx, pc, irregular_data,
                   regular_time_points, outputs, exc>>

\* the kernel's IndexError is not caught: the script ends
GridInterpolateRaise ==
    /\ pc = "grid"
    /\ gi <= Len(regular_time_points)
    /\ LET t == regular_time_points[gi]
           r == KnnInterpolation(irregular_data, t, K)
       IN  /\ ExistingMatch(OriginalTimePoints(irregular_data), t) = 0
           /\ r.exc # "none"
           /\ samples' = irregular_data
           /\ time_point_to_complete' = t
           /\ ret' = r
           /\ kpc' = "raised"
           /\ exc' = r.exc
    /\ kernel_calls' = kernel_calls + 1
    /\ pc' = "crashed"
    /\ UNCHANGED <<K, new_time_interval, nfiles, fileIdx, irregular_data,
                   regular_time_points, gi, regular_data, outputs>>

\* regular_data.to_csv(output_filepath), then back to the head of the loop.
\* There every per-file variable is dead (the next iteration assigns each
\* before reading it), so the state at the loop head does not carry them.
SaveFile ==
    /\ pc = "grid"
    /\ gi > Len(regular_time_points)
    /\ outputs' = [outputs EXCEPT ![fileIdx] = "written"]
    /\ fileIdx' = fileIdx + 1
    /\ pc' = "next"
    /\ irregular_data' = EmptyFrame
    /\ regular_time_points' = <<>>
    /\ gi' = 1
    /\ regular_data' = <<>>
    /\ kernel_calls' = 0
    /\ samples' = EmptyFrame
    /\ time_point_to_complete' = 0
    /\ kpc' = "idle"
    /\ ret' = NoRet
    /\ UNCHANGED <<K, new_time_interval, nfiles, exc>>

\* "All files have been processed!"
Finish ==
    /\ pc = "next"
    /\ fileIdx > nfiles
    /\ pc' = "done"
    /\ UNCHANGED <<kvars, new_time_interval, nfiles, fileIdx, irregular_data,
                   regular_time_points, gi, regular_data, kernel_calls, outputs, exc>>

BNext ==
    \/ SkipFile
    \/ LoadFile
    \/ GridCopy
    \/ GridCopyKeyError
    \/ GridInterpolate
    \/ GridInterpolateRaise
    \/ SaveFile
    \/ Finish

BatchSpec == BInit /\ [][BNext]_vars

\* ------------------------------------------ vocabulary of the properties
NCols == Len(samples.cols)

ColTime(i) == ParseFloat(samples.cols[i].label)

\* time distance of column i to the query
Dist(i) == Abs(ColTime(i) - time_point_to_complete)

DistinctTimes == \A i, j \in 1..NCols : i # j => ColTime(i) # ColTime(j)

\* the preconditions of the kernel's contract
ValidInput == K >= 1 /\ NCols >= K + 1 /\ DistinctTimes

\* the columns whose time distance to the query is <= b
WindowCols(b) == {i \in 1..NCols : Dist(i) <= b}

\* 4 * b^2 * w_i  for  w_i = 0.75 * (1 - ((t - sample_i) / b)^2)
ScaledWeight(i, b) == 3 * (b * b - Dist(i) * Dist(i))

RECURSIVE SumWeights(_, _)
SumWeights(S, b) ==
    IF S = {} THEN 0
    ELSE LET i == CHOOSE x \in S : TRUE
         IN  ScaledWeight(i, b) + SumWeights(S \ {i}, b)

RECURSIVE SumWeighted(_, _, _)
SumWeighted(S, b, r) ==
    IF S = {} THEN 0
    ELSE LET i == CHOOSE x \in S : TRUE
         IN  ScaledWeight(i, b) * samples.cols[i].vals[r]
               + SumWeighted(S \ {i}, b, r)

\* the smallest and the largest measurement of feature r over the columns S
MinOver(S, r) ==
    LET i == CHOOSE x \in S :
                \A y \in S : samples.cols[x].vals[r] <= samples.cols[y].vals[r]
    IN  samples.cols[i].vals[r]

MaxOver(S, r) ==
    LET i == CHOOSE x \in S :
                \A y \in S : samples.cols[x].vals[r] >= samples.cols[y].vals[r]
    IN  samples.cols[i].vals[r]

\* C1: when the accumulated weight sum is positive, the returned vector is,
\* per feature, sum_i(w_i * value_i) / sum_i(w_i) over exactly the columns
\* within distance b of the query, and it differs from the raw weighted sum
\* sum_i(w_i * value_i) wherever the two differ.
C1_NormalizedAverage ==
    (kpc = "returned" /\ FGt(ret.total, Flt(0))) =>
        LET b == ret.b
            S == WindowCols(b)
        IN  /\ Len(ret.value) = samples.rows
            /\ \A r \in 1..samples.rows :
                 /\ ret.value[r][1] * SumWeights(S, b)
                       = ret.value[r][2] * SumWeighted(S, b, r)
                 /\ (SumWeights(S, b) # 4 * b * b /\ SumWeighted(S, b, r) # 0)
                       => ret.value[r][1] * 4 * b * b
                             # ret.value[r][2] * SumWeighted(S, b, r)

\* a call where two columns with different measurements weigh in and the
\* weights do not add up to 1
C1_Witness ==
    /\ kpc = "returned"
    /\ FGt(ret.total, Flt(0))
    /\ ret.total # Flt(1)
    /\ \E i, j \in 1..NCols :
         /\ Dist(i) < ret.b
         /\ Dist(j) < ret.b
         /\ samples.cols[i].vals # samples.cols[j].vals
    /\ \E i \in 1..NCols : Dist(i) > ret.b

\* C2: a query at the time of an existing column returns that column's
\* values exactly.
C2_ExactAtExistingColumn ==
    (kpc = "returned" /\ ValidInput /\ \E i \in 1..NCols : Dist(i) = 0) =>
        \E i \in 1..NCols :
            /\ Dist(i) = 0
            /\ ret.value = [r \in 1..samples.rows |-> Flt(samples.cols[i].vals[r])]

\* C3: b is the element at 0-indexed rank K of the ascending distances from
\* the query to every column of the table.
C3_BandwidthRankKOfAllColumns ==
    (kpc = "returned" /\ ValidInput) =>
        ret.b = SortSeq([i \in 1..NCols |-> Dist(i)], LAMBDA x, y : x < y)[K + 1]

\* C4: the outcome (failure or vector) is the same for every order of the
\* table's columns.
C4_ColumnOrderIndependent ==
    (kpc # "call" /\ K >= 1 /\ DistinctTimes) =>
        \A p \in Permutations(1..NCols) :
            LET permuted == [rows |-> samples.rows,
                             cols |-> [i \in 1..NCols |-> samples.cols[p[i]]]]
                other == KnnInterpolation(permuted, time_point_to_complete, K)
            IN  other.exc = ret.exc /\ other.value = ret.value

\* C5 (as stated): for valid inputs, b > 0 implies a weight sum > 0.
C5_PositiveWeightSum ==
    (kpc = "returned" /\ ValidInput /\ ret.b > 0) => FGt(ret.total, Flt(0))

\* C5 (amended): for valid inputs with b > 0 the weight sum is > 0 exactly
\* when some column is strictly closer to the query than b; when every
\* column of the window sits at distance exactly b the sum is 0.
C5_PositiveIffStrictlyInside ==
    (kpc = "returned" /\ ValidInput /\ ret.b > 0) =>
        /\ FGt(ret.total, Flt(0)) <=> \E i \in 1..NCols : Dist(i) < ret.b
        /\ ~FGt(ret.total, Flt(0)) => ret.total = Flt(0)

\* two columns tied at distance exactly b and a third strictly inside
C5_Witness ==
    /\ kpc = "returned"
    /\ ValidInput
    /\ ret.b > 0
    /\ \E i, j \in 1..NCols : i # j /\ Dist(i) = ret.b /\ Dist(j) = ret.b
    /\ \E i \in 1..NCols : Dist(i) < ret.b
    /\ FGt(ret.total, Flt(0))

\* every weight the loop used is >= 0
WeightsNonNegative ==
    \A i \in 1..NCols :
        InWindow(ColTime(i), time_point_to_complete, ret.b)
            => FLe(Flt(0), Kernel(ColTime(i), time_point_to_complete, ret.b))

\* every element of the result is between the smallest and the largest
\* measurement of its feature over the columns within b
WithinHull ==
    LET S == WindowCols(ret.b)
    IN  \A r \in 1..samples.rows :
            /\ FLe(Flt(MinOver(S, r)), ret.value[r])
            /\ FLe(ret.value[r], Flt(MaxOver(S, r)))

\* C6 (as stated): for valid inputs the result lies within the min/max of
\* the contributing columns and every weight used is non-negative.
C6_WithinHull ==
    (kpc = "returned" /\ ValidInput) => (WithinHull /\ WeightsNonNegative)

\* C6 (amended): the same, whenever the accumulated weight sum is positive.
C6_WithinHullWhenWeighted ==
    (kpc = "returned" /\ ValidInput)
        => /\ WeightsNonNegative
           /\ FGt(ret.total, Flt(0)) => WithinHull

\* a result strictly between the smallest and the largest contributing value
C6_Witness ==
    /\ kpc = "returned"
    /\ ValidInput
    /\ FGt(ret.total, Flt(0))
    /\ \E r \in 1..samples.rows :
         /\ FGt(ret.value[r], Flt(MinOver(WindowCols(ret.b), r)))
         /\ FGt(Flt(MaxOver(WindowCols(ret.b), r)), ret.value[r])
    /\ \E i \in 1..NCols : Dist(i) > ret.b

\* C9: the call fails exactly when the table has fewer than K+1 time
\* columns; with at least K+1 distinct time columns it returns one element
\* per feature.
C9_FailsIffTooFewColumns ==
    kpc # "call" =>
        /\ ValidInput => (kpc = "returned" /\ Len(ret.value) = samples.rows)
        /\ NCols < K + 1 => kpc = "raised"

\* --------------------------------------------- properties of the batch
\* the time coordinates of the file being processed
FileTimes == OriginalTimePoints(irregular_data)

\* some original time coordinate is within the is-close tolerance of t
HasCloseOriginal(t) == \E i \in 1..Len(FileTimes) : IsClose(FileTimes[i], t)

\* C7: the grid is start, start+step, ... with start = min(times); consecutive
\* points differ by step, every point but the last is < end = max(times), the
\* last point g satisfies end <= g < end + step, and g = end when end - start
\* is a multiple of step.
C7_GridSpansRange ==
    pc = "grid" =>
        LET g     == regular_time_points
            n     == Len(regular_time_points)
            start == SeqMin(FileTimes)
            end   == SeqMax(FileTimes)
        IN  /\ n >= 1
            /\ g[1] = start
            /\ \A i \in 1..(n - 1) :
                 /\ g[i + 1] - g[i] = new_time_interval
                 /\ g[i] < end
            /\ end <= g[n]
            /\ g[n] < end + new_time_interval
            /\ (end - start) % new_time_interval = 0 => g[n] = end

\* the demo table with the configured step 7: the grid is [0, 7, 14, 21]
C7_Witness ==
    /\ pc = "grid"
    /\ irregular_data = QuickyData
    /\ new_time_interval = ConfiguredInterval
    /\ regular_time_points = <<0, 7, 14, 21>>

\* every grid point of the current file has a close original time
OnTargetGrid ==
    \A j \in 1..Len(regular_time_points) : HasCloseOriginal(regular_time_points[j])

\* C8: a grid point with an original time within tolerance gets that
\* column's values verbatim, without a kernel call; for a table already on
\* the grid the kernel is never called, the column lookup raises no error
\* and the output holds the original values.
C8_CopyVerbatimNoLookupError ==
    /\ exc # "KeyError"
    /\ \A j \in 1..Len(regular_data) :
         HasCloseOriginal(regular_data[j].t) =>
            /\ regular_data[j].src = "copy"
            /\ \E i \in 1..Len(FileTimes) :
                 /\ IsClose(FileTimes[i], regular_data[j].t)
                 /\ regular_data[j].vals = AsFloats(irregular_data.cols[i].vals)
    /\ (pc = "grid" /\ OnTargetGrid) => kernel_calls = 0

\* C10: a table with too few time columns for K is skipped and does not end
\* the batch; when the loop has finished every file was either written or
\* skipped; a table without numeric columns gets no grid and no output.
C10_MalformedTableNeverAbortsBatch ==
    /\ (exc = "IndexError" /\ Len(irregular_data.cols) < K + 1) => pc # "crashed"
    /\ pc = "done" =>
          \A i \in 1..nfiles : outputs[i] \in {"written", "skipped"}
    /\ \A i \in 1..nfiles :
          (outputs[i] = "skipped" /\ fileIdx = i + 1 /\ pc = "next")
             => regular_time_points = <<>> /\ regular_data = <<>>

\* C11: every knn_interpolation call made by the grid loop that computes a
\* bandwidth has b > 0: the query has no original time within the is-close
\* tolerance, so every distance is > 0, (t - sample) / b never divides by
\* zero and neither a weight, the weight sum nor the result is NaN.
C11_GridCallsHavePositiveBandwidth ==
    kpc = "returned" =>
        /\ samples = irregular_data
        /\ ~HasCloseOriginal(time_point_to_complete)
        /\ \A i \in 1..NCols : Dist(i) > 0
        /\ ret.b > 0
        /\ \A i \in 1..NCols :
             ~IsNaN(Kernel(ColTime(i), time_point_to_complete, ret.b))
        /\ ~IsNaN(ret.total)
        /\ \A r \in 1..Len(ret.value) : ~IsNaN(ret.value[r])

\* the grid loop has called the kernel twice for one file, the last call
\* with columns inside and outside its window
C11_Witness ==
    /\ pc = "grid"
    /\ kpc = "returned"
    /\ kernel_calls >= 2
    /\ ret.b > 0
    /\ \E i \in 1..NCols : Dist(i) < ret.b
    /\ \E i \in 1..NCols : Dist(i) > ret.b

=============================================================================
